---- MODULE Spec2Model ----
(***************************************************************************)
(* Conversational RAG backend: the orchestrator's chat pipeline            *)
(* (core/rag_system.py), the memory manager (core/memory_manager.py) and   *)
(* the two transport adapters that call it (api/routes.py,                 *)
(* api/websockets.py).                                                     *)
(*                                                                         *)
(* Scheduling: one asyncio event loop.  A coroutine runs from one          *)
(* suspension point to the next without interleaving with other            *)
(* coroutines; `loop` names the coroutine that is running.  The work       *)
(* handed to asyncio.to_thread runs on a worker thread, concurrently with  *)
(* the event loop; its steps do not need `loop`.                           *)
(***************************************************************************)
EXTENDS Integers, Sequences, FiniteSets, TLC

\* ---- bounds of the model
MaxCalls == 2
MaxConv == 2
MaxReq == 2
MaxReqDeep == 3
MaxReqRt == 1
MaxDocCalls == 1
MaxFiles == 2

\* ---- program constants
K == 5

Procs == 1..MaxCalls
ConvIds == 1..MaxConv
ObjIds == 1..(2 * MaxConv + MaxCalls)
Systems == {"http", "ws"}
Questions == {"q1", "q2"}
Answers == {"a1"}
NoProc == 0
NoObj == 0
DocProcs == 1..MaxDocCalls

VARIABLES
    conversations,  \* relational store: ids of the Conversation rows
    dbMessages,     \* relational store: id -> committed Message roles, in order
    memories,       \* per SimpleRAGSystem instance: memory_manager.memories
    heap,           \* ConversationBufferWindowMemory objects: chat_memory.messages
    lock,           \* per instance: holder of memory_manager._lock
    loop,           \* coroutine running on the event loop
    hubKey,         \* os.getenv("LANGCHAIN_API_KEY") is set
    calls,          \* per handler: position and locals
    nreq,           \* requests started so far
    active_connections, \* ConnectionManager: conversation id -> list of sockets
    connKeys,       \* ConnectionManager: the keys of the active_connections dict
    socks,          \* per websocket: client side, broadcast in progress, deliveries
    documents,      \* relational store: the Document rows
    index,          \* vector store: the chunks of the collection
    docCalls,       \* per document request (upload, delete): position and locals
    settings,       \* config.settings: retrieval_k, similarity_threshold
    retrieved,      \* last run of `retriever | format_docs`
    config,         \* config.Settings(): the values given and the object built
    batch           \* the add_documents call in progress: position and locals

chatvars == <<conversations, dbMessages, memories, heap, lock, loop, hubKey, calls, nreq>>
rtvars == <<active_connections, connKeys, socks>>
docvars == <<documents, index, docCalls, settings, retrieved>>
ingvars == <<config, batch>>
vars == <<chatvars, rtvars, docvars, ingvars>>

\* A message of chat_memory.messages; `by` records the handler that appended it
\* and `conv` the conversation id its chat call was given.
Turn(role, text, by, conv) == [role |-> role, text |-> text, by |-> by, conv |-> conv]

IdleCall ==
    [pc |-> "idle", kind |-> "none", sys |-> "http", conv |-> 1, q |-> "",
     handle |-> NoObj, pre |-> <<>>, prompt |-> "none",
     chain |-> "none", hist |-> <<>>, answer |-> "", gens |-> 0,
     events |-> <<>>, resp |-> "none"]

\* A frame's "content": a string, absent, or a JSON value that is not a string.
Content(tag, val) == [tag |-> tag, val |-> val]

\* One websocket and the locals of its websocket_endpoint coroutine: the client
\* side (none / open / closed by the client), the broadcast in progress (message,
\* list position of the for loop, what follows it), the connections registered
\* when it began and those removed from the list since, the kind of content of
\* the frame being served and the sends made while serving it.
IdleSock ==
    [conn |-> "none", conv |-> 1, frame |-> "none", msg |-> "none", val |-> "",
     idx |-> 0, then |-> "none", start |-> <<>>, left |-> {}, log |-> <<>>]

\* One POST /documents/upload or DELETE /documents/{id} request: the locals of
\* the handler (content hash, content type, file_info["path"], chunk_count, the
\* id of existing_doc), what it has called so far, and its response.
IdleDocCall ==
    [pc |-> "idle", kind |-> "none", content |-> "", ctype |-> "none", path |-> 0,
     chunks |-> 0, dup |-> 0, saved |-> FALSE, ingested |-> FALSE,
     resp |-> "none", body |-> 0]

\* settings.retrieval_k and settings.similarity_threshold (in tenths).
DefaultSettings == [retrieval_k |-> 5, similarity_threshold |-> 7]
NoRetrieval == [kind |-> "none", q |-> "", docs |-> <<>>, context |-> <<>>]

\* Settings(): `given` holds the values the environment supplies for chunk_size
\* and chunk_overlap (<<v>>, or Absent: not supplied, the default is taken);
\* `data` the fields validated so far (<<v>>); `errors` the fields that failed.
Absent == <<>>
DefaultChunkSize == 1000
DefaultChunkOverlap == 200
MinChunkSize == 100
MaxChunkSize == 10000
Unloaded(size, overlap) ==
    [pc |-> "start", given |-> [chunk_size |-> size, chunk_overlap |-> overlap],
     data |-> [chunk_size |-> Absent, chunk_overlap |-> Absent], errors |-> {}]
DefaultConfig ==
    [pc |-> "loaded", given |-> [chunk_size |-> Absent, chunk_overlap |-> Absent],
     data |-> [chunk_size |-> <<DefaultChunkSize>>,
               chunk_overlap |-> <<DefaultChunkOverlap>>],
     errors |-> {}]

\* add_documents: file_paths, the loop position, all_chunks, the last
\* process_document result, whether the vector store was called, the outcome.
NoResult == [success |-> FALSE, raised |-> FALSE, error |-> "", chunks |-> <<>>,
             chunk_count |-> 0, total_tokens |-> 0]
IdleBatch ==
    [pc |-> "idle", file_paths |-> <<>>, i |-> 0, all_chunks |-> <<>>,
     result |-> NoResult, results |-> <<>>, added |-> FALSE, outcome |-> "none",
     ret |-> 0]

InitChatVars ==
    /\ conversations = {}
    /\ dbMessages = [c \in ConvIds |-> <<>>]
    /\ memories = [s \in Systems |-> [c \in ConvIds |-> NoObj]]
    /\ heap = [o \in ObjIds |-> <<>>]
    /\ lock = [s \in Systems |-> NoProc]
    /\ loop = NoProc
    /\ hubKey \in BOOLEAN
    /\ calls = [p \in Procs |-> IdleCall]
    /\ nreq = 0

InitRtVars ==
    /\ active_connections = [c \in ConvIds |-> <<>>]
    /\ connKeys = {}
    /\ socks = [p \in Procs |-> IdleSock]

InitDocVars ==
    /\ documents = {}
    /\ index = {}
    /\ docCalls = [u \in DocProcs |-> IdleDocCall]
    /\ retrieved = NoRetrieval

InitIngVars ==
    /\ config = DefaultConfig
    /\ batch = IdleBatch

Init ==
    /\ InitChatVars
    /\ InitRtVars
    /\ InitDocVars
    /\ InitIngVars
    /\ settings = DefaultSettings

\* ---- helpers
Set(p, rec) == [calls EXCEPT ![p] = rec]
LoopFree(p) == loop \in {NoProc, p}

\* An object is live while the mapping or a handler's local still refers to it.
Referenced(o, mem, cs) ==
    \/ \E s \in Systems, c \in ConvIds : mem[s][c] = o
    \/ \E p \in Procs : cs[p].handle = o
Collect(h, mem, cs) ==
    [o \in ObjIds |-> IF Referenced(o, mem, cs) THEN h[o] ELSE <<>>]
FreshObj == CHOOSE o \in ObjIds :
    /\ ~Referenced(o, memories, calls)
    /\ \A o2 \in ObjIds : ~Referenced(o2, memories, calls) => o <= o2

MaxId(S) == IF S = {} THEN 0 ELSE CHOOSE m \in S : \A x \in S : x <= m
\* Handlers are interchangeable: a new request takes the first idle one.
FirstIdle(p) == calls[p].pc = "idle" /\ \A p2 \in Procs : p2 < p => calls[p2].pc # "idle"

\* ---- AsyncMemoryManager
\* get_memory, `async with self._lock`: the lock is taken.
GetMemoryAcquire(p) ==
    LET c == calls[p] IN
    /\ c.pc = "chat"
    /\ LoopFree(p)
    /\ lock[c.sys] = NoProc
    /\ lock' = [lock EXCEPT ![c.sys] = p]
    /\ loop' = p
    /\ calls' = Set(p, [c EXCEPT !.pc = "locked"])
    /\ UNCHANGED <<conversations, dbMessages, memories, heap, hubKey, nreq, rtvars, docvars, ingvars>>

\* Variant of GetMemoryBody: the lock is not released when get_memory returns
\* (it stays held over the rest of the pipeline).
GetMemoryBody_KeepsLock(p) ==
    LET c == calls[p]
        o == IF memories[c.sys][c.conv] = NoObj THEN FreshObj
             ELSE memories[c.sys][c.conv]
    IN
    /\ c.pc = "locked"
    /\ lock[c.sys] = p
    /\ memories' = [memories EXCEPT ![c.sys][c.conv] = o]
    /\ calls' = Set(p, [c EXCEPT !.pc = "resolved", !.handle = o, !.pre = heap[o]])
    /\ UNCHANGED <<conversations, dbMessages, heap, lock, loop, hubKey, nreq, rtvars, docvars, ingvars>>

\* Variant of GetMemoryBody: one memory is kept for the whole instance, whatever
\* conversation id is asked for.
GetMemoryBody_SharedMemory(p) ==
    LET c == calls[p]
        o == IF memories[c.sys][1] = NoObj THEN FreshObj
             ELSE memories[c.sys][1]
    IN
    /\ c.pc = "locked"
    /\ lock[c.sys] = p
    /\ memories' = [memories EXCEPT ![c.sys][1] = o]
    /\ lock' = [lock EXCEPT ![c.sys] = NoProc]
    /\ calls' = Set(p, [c EXCEPT !.pc = "resolved", !.handle = o, !.pre = heap[o]])
    /\ UNCHANGED <<conversations, dbMessages, heap, loop, hubKey, nreq, rtvars, docvars, ingvars>>

\* get_memory, body of the `async with`: create the entry if absent, return it,
\* release the lock.
GetMemoryBody(p) ==
    LET c == calls[p]
        o == IF memories[c.sys][c.conv] = NoObj THEN FreshObj
             ELSE memories[c.sys][c.conv]
    IN
    /\ c.pc = "locked"
    /\ lock[c.sys] = p
    /\ memories' = [memories EXCEPT ![c.sys][c.conv] = o]
    /\ lock' = [lock EXCEPT ![c.sys] = NoProc]
    /\ calls' = Set(p, [c EXCEPT !.pc = "resolved", !.handle = o, !.pre = heap[o]])
    /\ UNCHANGED <<conversations, dbMessages, heap, loop, hubKey, nreq, rtvars, docvars, ingvars>>

\* clear_memory: pop the entry under the lock (no suspension inside).
ClearMemory_ClearsAll(s, c) == [memories EXCEPT ![s] = [c2 \in ConvIds |-> NoObj]]
ClearMemory(s, c) == [memories EXCEPT ![s][c] = NoObj]

\* ---- SimpleRAGSystem.get_rag_chain after get_memory: prompt and chain choice
\* Variant of LocalPrompt: the history check is dropped.
LocalPrompt_AlwaysDefault(o) == "default"
LocalPrompt(o) == IF heap[o] # <<>> THEN "with_history" ELSE "default"
ChainKind(o) == IF heap[o] # <<>> THEN "history" ELSE "plain"

BuildChain(p) ==
    LET c == calls[p] IN
    /\ c.pc = "resolved"
    /\ loop = p
    /\ \E pullOk \in BOOLEAN :
          calls' = Set(p, [c EXCEPT
              !.pc = "chained",
              !.prompt = IF hubKey /\ pullOk THEN "hub" ELSE LocalPrompt(c.handle),
              !.chain = ChainKind(c.handle)])
    /\ UNCHANGED <<conversations, dbMessages, memories, heap, lock, loop, hubKey, nreq, rtvars, docvars, ingvars>>

\* ---- SimpleRAGSystem.chat
AddUserMessage(p) ==
    LET c == calls[p] IN
    /\ c.pc = "chained"
    /\ loop = p
    /\ heap' = [heap EXCEPT ![c.handle] = Append(@, Turn("user", c.q, p, c.conv))]
    /\ calls' = Set(p, [c EXCEPT !.pc = "user_added"])
    /\ UNCHANGED <<conversations, dbMessages, memories, lock, loop, hubKey, nreq, rtvars, docvars, ingvars>>

\* Variant of Dispatch: chain.invoke may be started before the user turn is
\* saved.
Dispatch_BeforeUserTurn(p) ==
    LET c == calls[p] IN
    /\ c.pc \in {"chained", "user_added"}
    /\ loop = p
    /\ loop' = NoProc
    /\ calls' = Set(p, [c EXCEPT !.pc = "thread", !.gens = @ + 1])
    /\ UNCHANGED <<conversations, dbMessages, memories, heap, lock, hubKey, nreq, rtvars, docvars, ingvars>>

\* Variant of Dispatch: chain.invoke is called on the event loop itself, which
\* stays taken while it runs.
Dispatch_Blocking(p) ==
    LET c == calls[p] IN
    /\ c.pc = "user_added"
    /\ loop = p
    /\ calls' = Set(p, [c EXCEPT !.pc = "thread", !.gens = @ + 1])
    /\ UNCHANGED <<conversations, dbMessages, memories, heap, lock, loop, hubKey, nreq, rtvars, docvars, ingvars>>

\* await asyncio.to_thread(chain.invoke, question): the coroutine suspends.
Dispatch(p) ==
    LET c == calls[p] IN
    /\ c.pc = "user_added"
    /\ loop = p
    /\ loop' = NoProc
    /\ calls' = Set(p, [c EXCEPT !.pc = "thread", !.gens = @ + 1])
    /\ UNCHANGED <<conversations, dbMessages, memories, heap, lock, hubKey, nreq, rtvars, docvars, ingvars>>

\* Worker thread: retrieval, then the prompt is filled (chat_history is read
\* from memory.chat_memory.messages here); retrieval may raise.
ThreadPrompt(p) ==
    LET c == calls[p] IN
    /\ c.pc = "thread"
    /\ \/ calls' = Set(p, [c EXCEPT
              !.pc = "prompted",
              !.hist = IF c.chain = "history" THEN heap[c.handle] ELSE <<>>])
       \/ calls' = Set(p, [c EXCEPT !.pc = "gen_err"])
    /\ UNCHANGED <<conversations, dbMessages, memories, heap, lock, loop, hubKey, nreq, rtvars, docvars, ingvars>>

\* Worker thread: the LLM call returns an answer or raises.
ThreadLLM(p) ==
    LET c == calls[p] IN
    /\ c.pc = "prompted"
    /\ \/ \E a \in Answers : calls' = Set(p, [c EXCEPT !.pc = "gen_ok", !.answer = a])
       \/ calls' = Set(p, [c EXCEPT !.pc = "gen_err"])
    /\ UNCHANGED <<conversations, dbMessages, memories, heap, lock, loop, hubKey, nreq, rtvars, docvars, ingvars>>

\* The coroutine resumes with the response and saves it to memory.
AddAiMessage(p) ==
    LET c == calls[p] IN
    /\ c.pc = "gen_ok"
    /\ loop = NoProc
    /\ loop' = p
    /\ heap' = [heap EXCEPT ![c.handle] = Append(@, Turn("assistant", c.answer, p, c.conv))]
    /\ calls' = Set(p, [c EXCEPT !.pc = "ai_added"])
    /\ UNCHANGED <<conversations, dbMessages, memories, lock, hubKey, nreq, rtvars, docvars, ingvars>>

ChatReturn(p) ==
    LET c == calls[p] IN
    /\ c.pc = "ai_added"
    /\ loop = p
    /\ calls' = Set(p, [c EXCEPT !.pc = "returned"])
    /\ UNCHANGED <<conversations, dbMessages, memories, heap, lock, loop, hubKey, nreq, rtvars, docvars, ingvars>>

\* Variant of ChatRaise: a failed chain.invoke is run once more before the
\* exception propagates.
ChatRaise_RetryOnce(p) ==
    LET c == calls[p] IN
    /\ c.pc = "gen_err"
    /\ loop = NoProc
    /\ IF c.gens < 2
       THEN /\ calls' = Set(p, [c EXCEPT !.pc = "thread", !.gens = @ + 1])
            /\ UNCHANGED loop
       ELSE /\ calls' = Set(p, [c EXCEPT !.pc = "raised"])
            /\ loop' = p
    /\ UNCHANGED <<conversations, dbMessages, memories, heap, lock, hubKey, nreq, rtvars, docvars, ingvars>>

\* The coroutine resumes with the exception of chain.invoke, which propagates
\* out of chat.
ChatRaise(p) ==
    LET c == calls[p] IN
    /\ c.pc = "gen_err"
    /\ loop = NoProc
    /\ loop' = p
    /\ calls' = Set(p, [c EXCEPT !.pc = "raised"])
    /\ UNCHANGED <<conversations, dbMessages, memories, heap, lock, hubKey, nreq, rtvars, docvars, ingvars>>

\* ---- api/routes.py
\* POST /conversations/{id}/chat up to the call of rag_system.chat: 404 for an
\* unknown id, else the user message is committed.
HttpChat(p, conv, q) ==
    LET c == calls[p] IN
    /\ FirstIdle(p)
    /\ loop = NoProc
    /\ loop' = p
    /\ IF conv \notin conversations
       THEN /\ calls' = Set(p, [c EXCEPT !.pc = "done", !.kind = "http_chat",
                                         !.conv = conv, !.resp = "404"])
            /\ UNCHANGED <<dbMessages, nreq>>
       ELSE /\ nreq < MaxReq
            /\ nreq' = nreq + 1
            /\ calls' = Set(p, [c EXCEPT !.pc = "chat", !.kind = "http_chat",
                                         !.sys = "http", !.conv = conv, !.q = q])
            /\ dbMessages' = [dbMessages EXCEPT ![conv] = Append(@, "user")]
    /\ UNCHANGED <<conversations, memories, heap, lock, hubKey, rtvars, docvars, ingvars>>

\* After chat returned: add the assistant message, commit and answer.  The
\* commit updates the conversation row, which fails if the row was deleted
\* meanwhile: rollback, HTTP 500.
HttpAfterChat(p) ==
    LET c == calls[p] IN
    /\ c.pc = "returned"
    /\ c.kind = "http_chat"
    /\ loop = p
    /\ IF c.conv \notin conversations
       THEN /\ calls' = Set(p, [c EXCEPT !.pc = "done", !.resp = "500"])
            /\ UNCHANGED dbMessages
       ELSE /\ dbMessages' = [dbMessages EXCEPT ![c.conv] = Append(@, "assistant")]
            /\ calls' = Set(p, [c EXCEPT !.pc = "done", !.resp = "200"])
    /\ UNCHANGED <<conversations, memories, heap, lock, loop, hubKey, nreq, rtvars, docvars, ingvars>>

\* except Exception: rollback, HTTP 500.
HttpChatError(p) ==
    LET c == calls[p] IN
    /\ c.pc = "raised"
    /\ c.kind = "http_chat"
    /\ loop = p
    /\ calls' = Set(p, [c EXCEPT !.pc = "done", !.resp = "500"])
    /\ UNCHANGED <<conversations, dbMessages, memories, heap, lock, loop, hubKey, nreq, rtvars, docvars, ingvars>>

\* POST /conversations: the new row gets the next rowid.
CreateConversation(p) ==
    LET c == calls[p]
        id == MaxId(conversations) + 1
    IN
    /\ FirstIdle(p)
    /\ loop = NoProc
    /\ id \in ConvIds
    /\ loop' = p
    /\ conversations' = conversations \cup {id}
    /\ calls' = Set(p, [c EXCEPT !.pc = "done", !.kind = "create", !.conv = id,
                                 !.resp = "200"])
    /\ UNCHANGED <<dbMessages, memories, heap, lock, hubKey, nreq, rtvars, docvars, ingvars>>

\* DELETE /conversations/{id}: 404 for an unknown id; else clears the memory
\* entry of the routes module's rag_system and deletes the row (its messages
\* cascade).
DeleteConversation(p, conv) ==
    LET c == calls[p] IN
    /\ FirstIdle(p)
    /\ loop = NoProc
    /\ loop' = p
    /\ IF conv \notin conversations
       THEN /\ calls' = Set(p, [c EXCEPT !.pc = "done", !.kind = "delete_conv",
                                         !.conv = conv, !.resp = "404"])
            /\ UNCHANGED <<conversations, dbMessages, memories, heap>>
       ELSE /\ calls' = Set(p, [c EXCEPT !.pc = "done", !.kind = "delete_conv",
                                         !.conv = conv, !.resp = "200"])
            /\ memories' = ClearMemory("http", conv)
            /\ heap' = Collect(heap, memories', calls')
            /\ conversations' = conversations \ {conv}
            /\ dbMessages' = [dbMessages EXCEPT ![conv] = <<>>]
    /\ UNCHANGED <<lock, hubKey, nreq, rtvars, docvars, ingvars>>

\* ---- api/websockets.py
\* A {"type": "message"} frame: empty content is answered with an error to the
\* sender; otherwise the typing indicator is broadcast.
WsReceive(p, conv, content, bound) ==
    LET c == calls[p] IN
    /\ FirstIdle(p)
    /\ loop = NoProc
    /\ IF content = ""
       THEN /\ calls' = Set(p, [c EXCEPT !.pc = "done", !.kind = "ws_message",
                                         !.sys = "ws", !.conv = conv,
                                         !.events = <<"error_empty">>])
            /\ loop' = p
            /\ UNCHANGED nreq
       ELSE /\ nreq < bound
            /\ nreq' = nreq + 1
            /\ calls' = Set(p, [c EXCEPT !.pc = "chat", !.kind = "ws_message",
                                         !.sys = "ws", !.conv = conv, !.q = content,
                                         !.events = <<"typing_on">>])
            /\ UNCHANGED loop
    /\ UNCHANGED <<conversations, dbMessages, memories, heap, lock, hubKey, rtvars, docvars, ingvars>>

WsMessage(p, conv, content) == WsReceive(p, conv, content, MaxReq)
WsMessageDeep(p, conv, content) == WsReceive(p, conv, content, MaxReqDeep)

\* After chat returned: save both messages (a database error is rolled back and
\* logged), then broadcast the answer.
WsAfterChat(p) ==
    LET c == calls[p] IN
    /\ c.pc = "returned"
    /\ c.kind = "ws_message"
    /\ loop = p
    /\ loop' = NoProc
    /\ \/ dbMessages' = [dbMessages EXCEPT ![c.conv] = @ \o <<"user", "assistant">>]
       \/ UNCHANGED dbMessages
    /\ calls' = Set(p, [c EXCEPT !.pc = "ws_final", !.events = Append(@, "message")])
    /\ UNCHANGED <<conversations, memories, heap, lock, hubKey, nreq, rtvars, docvars, ingvars>>

\* except Exception: broadcast the error event.
WsChatError(p) ==
    LET c == calls[p] IN
    /\ c.pc = "raised"
    /\ c.kind = "ws_message"
    /\ loop = p
    /\ loop' = NoProc
    /\ calls' = Set(p, [c EXCEPT !.pc = "ws_final", !.events = Append(@, "error")])
    /\ UNCHANGED <<conversations, dbMessages, memories, heap, lock, hubKey, nreq, rtvars, docvars, ingvars>>

\* finally: stop the typing indicator.
WsTypingOff(p) ==
    LET c == calls[p] IN
    /\ c.pc = "ws_final"
    /\ loop = NoProc
    /\ loop' = p
    /\ calls' = Set(p, [c EXCEPT !.pc = "done", !.events = Append(@, "typing_off")])
    /\ UNCHANGED <<conversations, dbMessages, memories, heap, lock, hubKey, nreq, rtvars, docvars, ingvars>>

\* The handler returns (HTTP response sent / back at receive_json).
Finish(p) ==
    /\ calls[p].pc = "done"
    /\ loop = p
    /\ loop' = NoProc
    /\ calls' = Set(p, IdleCall)
    /\ heap' = Collect(heap, memories, calls')
    /\ UNCHANGED <<conversations, dbMessages, memories, lock, hubKey, nreq, rtvars, docvars, ingvars>>

Next ==
    \/ \E p \in Procs : GetMemoryAcquire(p)
    \/ \E p \in Procs : GetMemoryBody(p)
    \/ \E p \in Procs : BuildChain(p)
    \/ \E p \in Procs : AddUserMessage(p)
    \/ \E p \in Procs : Dispatch(p)
    \/ \E p \in Procs : ThreadPrompt(p)
    \/ \E p \in Procs : ThreadLLM(p)
    \/ \E p \in Procs : AddAiMessage(p)
    \/ \E p \in Procs : ChatReturn(p)
    \/ \E p \in Procs : ChatRaise(p)
    \/ \E p \in Procs, c \in ConvIds, q \in Questions : HttpChat(p, c, q)
    \/ \E p \in Procs : HttpAfterChat(p)
    \/ \E p \in Procs : HttpChatError(p)
    \/ \E p \in Procs : CreateConversation(p)
    \/ \E p \in Procs, c \in ConvIds : DeleteConversation(p, c)
    \/ \E p \in Procs, c \in ConvIds, q \in Questions \cup {""} : WsMessage(p, c, q)
    \/ \E p \in Procs : WsAfterChat(p)
    \/ \E p \in Procs : WsChatError(p)
    \/ \E p \in Procs : WsTypingOff(p)
    \/ \E p \in Procs : Finish(p)

Spec == Init /\ [][Next]_vars

\* Runs in which all traffic comes over the websocket, with a longer horizon.
NextWs ==
    \/ \E p \in Procs : GetMemoryAcquire(p)
    \/ \E p \in Procs : GetMemoryBody(p)
    \/ \E p \in Procs : BuildChain(p)
    \/ \E p \in Procs : AddUserMessage(p)
    \/ \E p \in Procs : Dispatch(p)
    \/ \E p \in Procs : ThreadPrompt(p)
    \/ \E p \in Procs : ThreadLLM(p)
    \/ \E p \in Procs : AddAiMessage(p)
    \/ \E p \in Procs : ChatReturn(p)
    \/ \E p \in Procs : ChatRaise(p)
    \/ \E p \in Procs, c \in ConvIds, q \in Questions \cup {""} : WsMessageDeep(p, c, q)
    \/ \E p \in Procs : WsAfterChat(p)
    \/ \E p \in Procs : WsChatError(p)
    \/ \E p \in Procs : WsTypingOff(p)
    \/ \E p \in Procs : Finish(p)

SpecWs == Init /\ [][NextWs]_vars

\* ---- api/websockets.py with its connection registry
\* str.strip() on the contents the model sends.
Strip(s) == CASE s = "  " -> "" [] s = " q1 " -> "q1" [] OTHER -> s
\* data.get("content", ""): the default for an absent key.
GetContent(f) == IF f.tag = "absent" THEN "" ELSE f.val
FrameContents ==
    {Content("str", v) : v \in {"q1", " q1 ", "", "  "}}
        \cup {Content("absent", ""), Content("other", "")}
Statuses == {"true", "false", "absent"}
\* list.remove(websocket)
Remove(L, p) == SelectSeq(L, LAMBDA x : x # p)
\* The sockets S once p has been removed from the list of conv: the broadcasts
\* in progress on conv have seen p leave.
Departed(S, p, conv) ==
    [t \in Procs |->
        IF t # p /\ calls[t].pc = "bcast" /\ calls[t].conv = conv
        THEN [S[t] EXCEPT !.left = @ \cup {p}]
        ELSE S[t]]
\* manager.disconnect(p, conv): with the key present, p is removed from its
\* list, and the key is deleted when the list is left empty.
DisconnectLists(p, conv) ==
    IF conv \in connKeys
    THEN [active_connections EXCEPT ![conv] = Remove(@, p)]
    ELSE active_connections
DisconnectKeys_KeepsKey(p, conv) == connKeys
DisconnectKeys(p, conv) ==
    IF conv \in connKeys /\ Remove(active_connections[conv], p) = <<>>
    THEN connKeys \ {conv}
    ELSE connKeys
\* The handler of socket p is waiting in receive_json.
AtReceive(p) == calls[p].pc = "idle" /\ socks[p].conn # "none"
\* Start of manager.broadcast_to_conversation(msg, conv) by the handler of p.
Broadcasting(s, conv, msg, val, then) ==
    [s EXCEPT !.msg = msg, !.val = val, !.idx = 1, !.then = then,
              !.start = active_connections[conv], !.left = {}]

\* websocket_endpoint up to the loop: accept, then register the connection.
\* Sockets are interchangeable: the first unused one connects.
RtConnect(p, conv) ==
    /\ socks[p].conn = "none"
    /\ calls[p].pc = "idle"
    /\ \A p2 \in Procs : p2 < p => socks[p2].conn # "none"
    /\ loop = NoProc
    /\ active_connections' = [active_connections EXCEPT
          ![conv] = Append(IF conv \in connKeys THEN @ ELSE <<>>, p)]
    /\ connKeys' = connKeys \cup {conv}
    /\ socks' = [socks EXCEPT ![p] = [IdleSock EXCEPT !.conn = "open", !.conv = conv]]
    /\ UNCHANGED <<conversations, dbMessages, memories, heap, lock, loop, hubKey,
                   calls, nreq, docvars, ingvars>>

\* Variant of RtClientClose: the disconnect cancels the handler: the frame being
\* served is abandoned where it stands and the connection is unregistered.
RtClientClose_Cancels(p) ==
    /\ socks[p].conn = "open"
    /\ loop = NoProc
    /\ socks' = [socks EXCEPT ![p].conn = "closed"]
    /\ IF calls[p].pc = "idle"
       THEN UNCHANGED <<calls, loop, active_connections, connKeys>>
       ELSE /\ calls' = Set(p, [calls[p] EXCEPT !.pc = "done"])
            /\ loop' = p
            /\ active_connections' = DisconnectLists(p, socks[p].conv)
            /\ connKeys' = DisconnectKeys(p, socks[p].conv)
    /\ UNCHANGED <<conversations, dbMessages, memories, heap, lock, hubKey, nreq,
                   docvars, ingvars>>

\* The client goes away.  The transport learns of it in an event-loop callback,
\* so between two coroutine segments; the handler learns of it at its next
\* receive.
RtClientClose(p) ==
    /\ socks[p].conn = "open"
    /\ loop = NoProc
    /\ socks' = [socks EXCEPT ![p].conn = "closed"]
    /\ UNCHANGED <<conversations, dbMessages, memories, heap, lock, loop, hubKey,
                   calls, nreq, active_connections, connKeys, docvars, ingvars>>

\* receive_json raises WebSocketDisconnect: manager.disconnect, the handler ends.
RtDisconnect(p) ==
    /\ AtReceive(p)
    /\ socks[p].conn = "closed"
    /\ loop = NoProc
    /\ active_connections' = DisconnectLists(p, socks[p].conv)
    /\ connKeys' = DisconnectKeys(p, socks[p].conv)
    /\ socks' = Departed([socks EXCEPT ![p] = IdleSock], p, socks[p].conv)
    /\ UNCHANGED <<conversations, dbMessages, memories, heap, lock, loop, hubKey,
                   calls, nreq, docvars, ingvars>>

\* A {"type": "message"} frame.  A content that is not a string has no strip():
\* the exception ends the handler in the outer `except Exception`, which
\* unregisters the connection.  An empty content is answered with the error
\* event to the sender.  Otherwise the typing indicator is broadcast.
RtMessage(p, f) ==
    LET c == calls[p]
        s == socks[p]
        content == Strip(GetContent(f))
    IN
    /\ AtReceive(p)
    /\ s.conn = "open"
    /\ loop = NoProc
    /\ loop' = p
    /\ IF f.tag = "other"
       THEN /\ calls' = Set(p, [c EXCEPT !.pc = "done", !.kind = "ws_message",
                                         !.sys = "ws", !.conv = s.conv])
            /\ socks' = Departed([socks EXCEPT ![p] = [IdleSock EXCEPT !.frame = f.tag]],
                                  p, s.conv)
            /\ active_connections' = DisconnectLists(p, s.conv)
            /\ connKeys' = DisconnectKeys(p, s.conv)
            /\ UNCHANGED nreq
       ELSE IF content = ""
       THEN /\ calls' = Set(p, [c EXCEPT !.pc = "done", !.kind = "ws_message",
                                         !.sys = "ws", !.conv = s.conv,
                                         !.events = <<"error_empty">>])
            /\ socks' = [socks EXCEPT ![p] = [s EXCEPT
                  !.frame = f.tag,
                  !.log = <<[ev |-> "error_empty", val |-> "", to |-> p, ok |-> TRUE]>>]]
            /\ UNCHANGED <<nreq, active_connections, connKeys>>
       ELSE /\ nreq < MaxReqRt
            /\ nreq' = nreq + 1
            /\ calls' = Set(p, [c EXCEPT !.pc = "bcast", !.kind = "ws_message",
                                         !.sys = "ws", !.conv = s.conv, !.q = content,
                                         !.events = <<"typing_on">>])
            /\ socks' = [socks EXCEPT ![p] =
                  Broadcasting([s EXCEPT !.frame = f.tag], s.conv, "typing_on", "", "chat")]
            /\ UNCHANGED <<active_connections, connKeys>>
    /\ UNCHANGED <<conversations, dbMessages, memories, heap, lock, hubKey, docvars, ingvars>>

\* A {"type": "typing"} frame: the status (False when absent) is broadcast.
RtTyping(p, status) ==
    LET c == calls[p]
        s == socks[p]
        ev == IF status = "true" THEN "typing_on" ELSE "typing_off"
    IN
    /\ AtReceive(p)
    /\ s.conn = "open"
    /\ loop = NoProc
    /\ loop' = p
    /\ calls' = Set(p, [c EXCEPT !.pc = "bcast", !.kind = "ws_typing", !.sys = "ws",
                                 !.conv = s.conv, !.events = <<ev>>])
    /\ socks' = [socks EXCEPT ![p] =
          Broadcasting([s EXCEPT !.frame = "typing"], s.conv, ev, "", "done")]
    /\ UNCHANGED <<conversations, dbMessages, memories, heap, lock, hubKey, nreq,
                   active_connections, connKeys, docvars, ingvars>>

\* broadcast_to_conversation, one turn of `for connection in list`: the next
\* element of the list gets the message; a send to a closed socket raises and
\* is logged.  `await connection.send_json` may suspend the coroutine.
RtSend(p) ==
    LET c == calls[p]
        s == socks[p]
        L == active_connections[c.conv]
        t == L[s.idx]
        ok == socks[t].conn = "open"
    IN
    /\ c.pc = "bcast"
    /\ LoopFree(p)
    /\ s.idx <= Len(L)
    /\ socks' = [socks EXCEPT ![p] = [s EXCEPT
          !.idx = @ + 1,
          !.log = Append(@, [ev |-> s.msg, val |-> s.val, to |-> t, ok |-> ok])]]
    /\ loop' = NoProc
    /\ UNCHANGED <<conversations, dbMessages, memories, heap, lock, hubKey, calls,
                   nreq, active_connections, connKeys, docvars, ingvars>>

\* The for loop has run off the end of the list: the handler goes on to chat,
\* to the `finally` block (typing indicator off), or back to receive_json.
RtBroadcastEnd(p) ==
    LET c == calls[p]
        s == socks[p]
    IN
    /\ c.pc = "bcast"
    /\ LoopFree(p)
    /\ s.idx > Len(active_connections[c.conv])
    /\ CASE s.then = "chat" ->
              /\ calls' = Set(p, [c EXCEPT !.pc = "chat"])
              /\ socks' = [socks EXCEPT ![p] = [s EXCEPT
                    !.msg = "none", !.idx = 0, !.then = "none", !.start = <<>>,
                    !.left = {}]]
              /\ loop' = NoProc
         [] s.then = "typing_off" ->
              /\ calls' = Set(p, [c EXCEPT !.events = Append(@, "typing_off")])
              /\ socks' = [socks EXCEPT ![p] =
                    Broadcasting(s, c.conv, "typing_off", "", "done")]
              /\ loop' = p
         [] OTHER ->
              /\ calls' = Set(p, [c EXCEPT !.pc = "done"])
              /\ socks' = [socks EXCEPT ![p] = [s EXCEPT
                    !.msg = "none", !.idx = 0, !.then = "none", !.start = <<>>,
                    !.left = {}]]
              /\ loop' = p
    /\ UNCHANGED <<conversations, dbMessages, memories, heap, lock, hubKey, nreq,
                   active_connections, connKeys, docvars, ingvars>>

\* Variant of RtAfterChat: the `finally` block is not run after a success.
RtAfterChat_NoFinally(p) ==
    LET c == calls[p]
        s == socks[p]
    IN
    /\ c.pc = "returned"
    /\ c.kind = "ws_message"
    /\ loop = p
    /\ \/ dbMessages' = [dbMessages EXCEPT ![c.conv] = @ \o <<"user", "assistant">>]
       \/ UNCHANGED dbMessages
    /\ calls' = Set(p, [c EXCEPT !.pc = "bcast", !.events = Append(@, "message")])
    /\ socks' = [socks EXCEPT ![p] = Broadcasting(s, c.conv, "message", c.answer, "done")]
    /\ UNCHANGED <<conversations, memories, heap, lock, loop, hubKey, nreq,
                   active_connections, connKeys, docvars, ingvars>>

\* After chat returned: save both messages (a database error is rolled back and
\* logged), then broadcast the answer.
RtAfterChat(p) ==
    LET c == calls[p]
        s == socks[p]
    IN
    /\ c.pc = "returned"
    /\ c.kind = "ws_message"
    /\ loop = p
    /\ \/ dbMessages' = [dbMessages EXCEPT ![c.conv] = @ \o <<"user", "assistant">>]
       \/ UNCHANGED dbMessages
    /\ calls' = Set(p, [c EXCEPT !.pc = "bcast", !.events = Append(@, "message")])
    /\ socks' = [socks EXCEPT ![p] =
          Broadcasting(s, c.conv, "message", c.answer, "typing_off")]
    /\ UNCHANGED <<conversations, memories, heap, lock, loop, hubKey, nreq,
                   active_connections, connKeys, docvars, ingvars>>

\* Variant of RtChatError: typing-off is sent at the end of the try body only,
\* so a failed chat ends with the error event.
RtChatError_NoTypingOff(p) ==
    LET c == calls[p]
        s == socks[p]
    IN
    /\ c.pc = "raised"
    /\ c.kind = "ws_message"
    /\ loop = p
    /\ calls' = Set(p, [c EXCEPT !.pc = "bcast", !.events = Append(@, "error")])
    /\ socks' = [socks EXCEPT ![p] = Broadcasting(s, c.conv, "error", "", "done")]
    /\ UNCHANGED <<conversations, dbMessages, memories, heap, lock, loop, hubKey,
                   nreq, active_connections, connKeys, docvars, ingvars>>

\* except Exception: broadcast the error event.
RtChatError(p) ==
    LET c == calls[p]
        s == socks[p]
    IN
    /\ c.pc = "raised"
    /\ c.kind = "ws_message"
    /\ loop = p
    /\ calls' = Set(p, [c EXCEPT !.pc = "bcast", !.events = Append(@, "error")])
    /\ socks' = [socks EXCEPT ![p] = Broadcasting(s, c.conv, "error", "", "typing_off")]
    /\ UNCHANGED <<conversations, dbMessages, memories, heap, lock, loop, hubKey,
                   nreq, active_connections, connKeys, docvars, ingvars>>

\* The frame is served: back at receive_json (or out of the handler).
RtFinish(p) ==
    /\ calls[p].pc = "done"
    /\ loop = p
    /\ loop' = NoProc
    /\ calls' = Set(p, IdleCall)
    /\ socks' = [socks EXCEPT ![p] =
          [IdleSock EXCEPT !.conn = socks[p].conn, !.conv = socks[p].conv]]
    /\ heap' = Collect(heap, memories, calls')
    /\ UNCHANGED <<conversations, dbMessages, memories, lock, hubKey, nreq,
                   active_connections, connKeys, docvars, ingvars>>

\* Runs of the websocket endpoint with its subscribers.
NextRt ==
    \/ \E p \in Procs : GetMemoryAcquire(p)
    \/ \E p \in Procs : GetMemoryBody(p)
    \/ \E p \in Procs : BuildChain(p)
    \/ \E p \in Procs : AddUserMessage(p)
    \/ \E p \in Procs : Dispatch(p)
    \/ \E p \in Procs : ThreadPrompt(p)
    \/ \E p \in Procs : ThreadLLM(p)
    \/ \E p \in Procs : AddAiMessage(p)
    \/ \E p \in Procs : ChatReturn(p)
    \/ \E p \in Procs : ChatRaise(p)
    \/ \E p \in Procs, c \in ConvIds : RtConnect(p, c)
    \/ \E p \in Procs : RtClientClose(p)
    \/ \E p \in Procs : RtDisconnect(p)
    \/ \E p \in Procs, f \in FrameContents : RtMessage(p, f)
    \/ \E p \in Procs, st \in Statuses : RtTyping(p, st)
    \/ \E p \in Procs : RtSend(p)
    \/ \E p \in Procs : RtBroadcastEnd(p)
    \/ \E p \in Procs : RtAfterChat(p)
    \/ \E p \in Procs : RtChatError(p)
    \/ \E p \in Procs : RtFinish(p)

\* The prompt source plays no part in the endpoint: runs without LANGCHAIN_API_KEY.
InitRt == Init /\ ~hubKey

SpecRt == InitRt /\ [][NextRt]_vars

\* ---- documents: api/routes.py upload_document / delete_document, the vector
\* ---- store and the retrieval step of the chain
\* An uploaded content is named by its MD5 digest (routes.py:158).
Hashes == {"h1", "h2"}
ContentTypes == {"text/plain", "image/png"}
\* file_handler.allowed_types, as far as ContentTypes goes.
AllowedTypes == {"text/plain"}
DocIds == 1..MaxFiles
ChainKinds == {"plain", "history"}
\* What the loader and the text splitter make of a content.
SplitChunks(h) == IF h = "h1" THEN <<"t1", "t2">> ELSE <<"t3">>
\* Similarity of a question and a chunk text as the embeddings give it, tenths.
Sim(q, t) ==
    CASE q = "q1" /\ t = "t1" -> 9
      [] q = "q1" /\ t = "t2" -> 4
      [] q = "q1" /\ t = "t3" -> 7
      [] q = "q2" /\ t = "t1" -> 2
      [] q = "q2" /\ t = "t2" -> 8
      [] OTHER -> 5
Chunk(path, i, t) == [source |-> path, pos |-> i, text |-> t]
ChunksOf(path, h) ==
    {Chunk(path, i, SplitChunks(h)[i]) : i \in DOMAIN SplitChunks(h)}
\* uuid4 file names never repeat: a new path is none of those still known.
FreshPath ==
    1 + MaxId({d.filename : d \in documents} \cup {ch.source : ch \in index}
              \cup {docCalls[u].path : u \in DOMAIN docCalls})
FirstIdleDoc(u) ==
    docCalls[u].pc = "idle"
    /\ \A u2 \in DOMAIN docCalls : u2 < u => docCalls[u2].pc # "idle"
SetDoc(u, rec) == [docCalls EXCEPT ![u] = rec]
SettingsChoices ==
    {[retrieval_k |-> k, similarity_threshold |-> 7] : k \in {1, 5}}

\* Chroma similarity search: the k chunks nearest to the question, nearest
\* first (ties in the order of insertion, which source and position give).
Nearer(q, a, b) ==
    \/ Sim(q, a.text) > Sim(q, b.text)
    \/ Sim(q, a.text) = Sim(q, b.text) /\ a.source < b.source
    \/ Sim(q, a.text) = Sim(q, b.text) /\ a.source = b.source /\ a.pos <= b.pos
RECURSIVE similarity_search(_, _, _)
similarity_search(S, q, k) ==
    IF k = 0 \/ S = {} THEN <<>>
    ELSE LET best == CHOOSE a \in S : \A b \in S : Nearer(q, a, b)
         IN <<best>> \o similarity_search(S \ {best}, q, k - 1)

\* The context string as its pieces: chunk texts and separators; "" is <<>>.
Sentinel == "No relevant documents found."
BlankLine == "\n\n"
RECURSIVE Join(_)
Join(docs) ==
    IF docs = <<>> THEN <<>>
    ELSE IF Len(docs) = 1 THEN <<docs[1].text>>
    ELSE <<docs[1].text, BlankLine>> \o Join(Tail(docs))
\* Variant of format_docs: no check for an empty result.
format_docs_NoSentinel(docs) == Join(docs)
format_docs(docs) == IF docs = <<>> THEN <<Sentinel>> ELSE Join(docs)

\* upload_document up to the duplicate check.  A duplicate returns the existing
\* record from inside the try; the `finally` block then reads file_info, which
\* was never assigned: the UnboundLocalError replaces the return value.
UploadStart(u, h, ctype) ==
    LET ex == {d \in documents : d.hash = h}
        req == [IdleDocCall EXCEPT !.kind = "upload", !.content = h, !.ctype = ctype]
    IN
    /\ FirstIdleDoc(u)
    /\ IF ex # {}
       THEN docCalls' = SetDoc(u, [req EXCEPT !.pc = "done", !.resp = "500",
                                              !.dup = (CHOOSE d \in ex : TRUE).id])
       ELSE docCalls' = SetDoc(u, [req EXCEPT !.pc = "checked"])
    /\ UNCHANGED <<chatvars, rtvars, ingvars, documents, index, settings, retrieved>>

\* file_handler.save_upload_file: an unsupported type raises, else the file is
\* written under a new name.
UploadSave(u) ==
    LET c == docCalls[u] IN
    /\ c.pc = "checked"
    /\ IF c.ctype \notin AllowedTypes
       THEN docCalls' = SetDoc(u, [c EXCEPT !.pc = "done", !.resp = "500"])
       ELSE /\ FreshPath <= MaxFiles
            /\ docCalls' = SetDoc(u, [c EXCEPT !.pc = "saved", !.saved = TRUE,
                                               !.path = FreshPath])
    /\ UNCHANGED <<chatvars, rtvars, ingvars, documents, index, settings, retrieved>>

\* rag_system.add_documents: the chunks go to the vector store; a document
\* that cannot be processed gives no chunks; a failing store raises.
UploadIngest(u) ==
    LET c == docCalls[u] IN
    /\ c.pc = "saved"
    /\ \/ /\ index' = index \cup ChunksOf(c.path, c.content)
          /\ docCalls' = SetDoc(u, [c EXCEPT !.pc = "ingested", !.ingested = TRUE,
                                             !.chunks = Len(SplitChunks(c.content))])
       \/ /\ docCalls' = SetDoc(u, [c EXCEPT !.pc = "ingested", !.ingested = TRUE])
          /\ UNCHANGED index
       \/ /\ docCalls' = SetDoc(u, [c EXCEPT !.pc = "done", !.ingested = TRUE,
                                             !.resp = "500"])
          /\ UNCHANGED index
    /\ UNCHANGED <<chatvars, rtvars, ingvars, documents, settings, retrieved>>

\* The Document row is added and committed; content_hash is unique.
UploadCommit(u) ==
    LET c == docCalls[u]
        id == MaxId({d.id : d \in documents}) + 1
    IN
    /\ c.pc = "ingested"
    /\ IF \E d \in documents : d.hash = c.content
       THEN /\ docCalls' = SetDoc(u, [c EXCEPT !.pc = "done", !.resp = "500"])
            /\ UNCHANGED documents
       ELSE /\ documents' = documents \cup
                  {[id |-> id, filename |-> c.path, hash |-> c.content,
                    chunk_count |-> c.chunks]}
            /\ docCalls' = SetDoc(u, [c EXCEPT !.pc = "done", !.resp = "200",
                                               !.body = id])
    /\ UNCHANGED <<chatvars, rtvars, ingvars, index, settings, retrieved>>

\* delete_document: 404 for an unknown id; else the chunks of the document's
\* filename are deleted from the vector store (a failure of the store is
\* logged and passed over) and the row is deleted.
DeleteDocument(u, id) ==
    LET found == {d \in documents : d.id = id}
        req == [IdleDocCall EXCEPT !.kind = "delete", !.pc = "done"]
    IN
    /\ FirstIdleDoc(u)
    /\ IF found = {}
       THEN /\ docCalls' = SetDoc(u, [req EXCEPT !.resp = "404"])
            /\ UNCHANGED <<documents, index>>
       ELSE LET d == CHOOSE x \in found : TRUE IN
            /\ \/ index' = {ch \in index : ch.source # d.filename}
               \/ UNCHANGED index
            /\ documents' = documents \ {d}
            /\ docCalls' = SetDoc(u, [req EXCEPT !.resp = "200", !.body = id,
                                                 !.path = d.filename])
    /\ UNCHANGED <<chatvars, rtvars, ingvars, settings, retrieved>>

\* The response is sent.
DocFinish(u) ==
    /\ docCalls[u].pc = "done"
    /\ docCalls' = SetDoc(u, IdleDocCall)
    /\ UNCHANGED <<chatvars, rtvars, ingvars, documents, index, settings, retrieved>>

\* `retriever | format_docs` of either chain, run for a question.
Retrieve(q, kind) ==
    LET docs == similarity_search(index, q, settings.retrieval_k) IN
    /\ retrieved' = [kind |-> kind, q |-> q, docs |-> docs,
                     context |-> format_docs(docs)]
    /\ UNCHANGED <<chatvars, rtvars, ingvars, documents, index, docCalls, settings>>

NextDocs ==
    \/ \E u \in DocProcs, h \in Hashes, t \in ContentTypes : UploadStart(u, h, t)
    \/ \E u \in DocProcs : UploadSave(u)
    \/ \E u \in DocProcs : UploadIngest(u)
    \/ \E u \in DocProcs : UploadCommit(u)
    \/ \E u \in DocProcs, id \in DocIds : DeleteDocument(u, id)
    \/ \E u \in DocProcs : DocFinish(u)
    \/ \E q \in Questions, kind \in ChainKinds : Retrieve(q, kind)

\* The settings are read once, at start-up.  The prompt source plays no part
\* here: runs without LANGCHAIN_API_KEY.
InitDocs ==
    /\ InitChatVars
    /\ ~hubKey
    /\ InitRtVars
    /\ InitDocVars
    /\ InitIngVars
    /\ settings \in SettingsChoices

SpecDocs == InitDocs /\ [][NextDocs]_vars

\* ---- the document routes served concurrently: each `await` of
\* ---- upload_document (save_upload_file, add_documents) lets another request in
MaxUploads == 2
UploadProcs == 1..MaxUploads

NextUploads ==
    \/ \E u \in UploadProcs, h \in Hashes, t \in ContentTypes : UploadStart(u, h, t)
    \/ \E u \in UploadProcs : UploadSave(u)
    \/ \E u \in UploadProcs : UploadIngest(u)
    \/ \E u \in UploadProcs : UploadCommit(u)
    \/ \E u \in UploadProcs, id \in DocIds : DeleteDocument(u, id)
    \/ \E u \in UploadProcs : DocFinish(u)

InitUploads ==
    /\ InitChatVars
    /\ ~hubKey
    /\ InitRtVars
    /\ InitIngVars
    /\ settings = DefaultSettings
    /\ documents = {}
    /\ index = {}
    /\ docCalls = [u \in UploadProcs |-> IdleDocCall]
    /\ retrieved = NoRetrieval

SpecUploads == InitUploads /\ [][NextUploads]_vars

\* ---- config.py: Settings() built at import, fields validated in the order
\* ---- they are declared; defaults are validated too (BaseSettings)
FallbackChunkSize == 1000
SizeInputs == {Absent} \cup {<<v>> : v \in {50, 100, 150, 200, 1000, 10000, 10001}}
OverlapInputs ==
    {Absent} \cup {<<v>> : v \in {-1, 0, 99, 100, 149, 150, 199, 200, 999, 1000, 10000}}

\* The value a field is validated with: the one given, else the default.
ValueOf(given, default) == IF given = Absent THEN default ELSE given[1]

\* Field(ge=100, le=10000) of chunk_size and Field(ge=0) of chunk_overlap.
ChunkSizeInRange(v) == v >= MinChunkSize /\ v <= MaxChunkSize
ChunkOverlapInRange(v) == v >= 0

\* validate_chunk_overlap: TRUE when the value is returned, FALSE when it
\* raises.  chunk_size is missing from info.data when it failed validation.
validate_chunk_overlap_Inclusive(v, data) ==
    LET chunk_size == ValueOf(data.chunk_size, FallbackChunkSize)
    IN ~(v > chunk_size)
validate_chunk_overlap(v, data) ==
    LET chunk_size == ValueOf(data.chunk_size, FallbackChunkSize)
    IN ~(v >= chunk_size)

ValidateChunkSize ==
    LET v == ValueOf(config.given.chunk_size, DefaultChunkSize) IN
    /\ config.pc = "start"
    /\ config' = IF ChunkSizeInRange(v)
                 THEN [config EXCEPT !.pc = "chunk_size", !.data.chunk_size = <<v>>]
                 ELSE [config EXCEPT !.pc = "chunk_size",
                                     !.errors = @ \cup {"chunk_size"}]
    /\ UNCHANGED <<chatvars, rtvars, docvars, batch>>

ValidateChunkOverlap ==
    LET v == ValueOf(config.given.chunk_overlap, DefaultChunkOverlap) IN
    /\ config.pc = "chunk_size"
    /\ config' = IF ChunkOverlapInRange(v) /\ validate_chunk_overlap(v, config.data)
                 THEN [config EXCEPT !.pc = "chunk_overlap", !.data.chunk_overlap = <<v>>]
                 ELSE [config EXCEPT !.pc = "chunk_overlap",
                                     !.errors = @ \cup {"chunk_overlap"}]
    /\ UNCHANGED <<chatvars, rtvars, docvars, batch>>

\* The object is built when no field failed; else ValidationError leaves the
\* module import, and the process does not start.
SettingsBuilt ==
    /\ config.pc = "chunk_overlap"
    /\ config' = [config EXCEPT !.pc = IF config.errors = {} THEN "loaded" ELSE "failed"]
    /\ UNCHANGED <<chatvars, rtvars, docvars, batch>>

NextConfig ==
    \/ ValidateChunkSize
    \/ ValidateChunkOverlap
    \/ SettingsBuilt

InitConfig ==
    /\ InitChatVars
    /\ ~hubKey
    /\ InitRtVars
    /\ InitDocVars
    /\ settings = DefaultSettings
    /\ batch = IdleBatch
    /\ config \in {Unloaded(s, o) : s \in SizeInputs, o \in OverlapInputs}

SpecConfig == InitConfig /\ [][NextConfig]_vars

\* ---- core/document_processor.py and SimpleRAGSystem.add_documents
MaxBatch == 3

\* The files of a batch: the detected type, the text (by its hash), and where
\* processing the file fails, if anywhere.
FileKinds ==
    { [type |-> "text/plain", content |-> "h1", fault |-> "none"],
      [type |-> "application/pdf", content |-> "h2", fault |-> "none"],
      [type |-> "application/pdf", content |-> "h1", fault |-> "load"],
      [type |-> "text/plain", content |-> "h2", fault |-> "split"] }
Batches == UNION {[1..n -> FileKinds] : n \in 0..MaxBatch}

get_loader(file_type) ==
    CASE file_type = "application/pdf" -> "PyPDFLoader"
      [] file_type \in {"application/vnd.openxmlformats-officedocument.wordprocessingml.document",
                        "application/msword"} -> "Docx2txtLoader"
      [] file_type = "text/plain" -> "TextLoader"
      [] OTHER -> "UnstructuredFileLoader"

\* len(chunk.page_content.split()) of the chunk texts.
Words(t) == CASE t = "t1" -> 2 [] t = "t2" -> 1 [] OTHER -> 3

RECURSIVE SumWords(_)
SumWords(ts) == IF ts = <<>> THEN 0 ELSE Words(Head(ts)) + SumWords(Tail(ts))

Failure(e) ==
    [success |-> FALSE, raised |-> FALSE, error |-> e, chunks |-> <<>>,
     chunk_count |-> 0, total_tokens |-> 0]

\* process_document: loader, load and split all run inside the try; any
\* exception becomes the failure result.
process_document_SplitPropagates(path, f) ==
    LET texts == SplitChunks(f.content) IN
    IF f.fault = "load" THEN Failure(get_loader(f.type) \o ": cannot load")
    ELSE IF f.fault = "split" THEN [Failure("cannot split") EXCEPT !.raised = TRUE]
    ELSE [success |-> TRUE, raised |-> FALSE, error |-> "",
          chunks |-> [i \in DOMAIN texts |-> Chunk(path, i, texts[i])],
          chunk_count |-> Len(texts), total_tokens |-> SumWords(texts)]
process_document(path, f) ==
    LET texts == SplitChunks(f.content) IN
    IF f.fault = "load" THEN Failure(get_loader(f.type) \o ": cannot load")
    ELSE IF f.fault = "split" THEN Failure("cannot split")
    ELSE [success |-> TRUE, raised |-> FALSE, error |-> "",
          chunks |-> [i \in DOMAIN texts |-> Chunk(path, i, texts[i])],
          chunk_count |-> Len(texts), total_tokens |-> SumWords(texts)]

AddDocumentsStart(files) ==
    /\ batch.pc = "idle"
    /\ batch' = [IdleBatch EXCEPT !.pc = "loop", !.file_paths = files, !.i = 1]
    /\ UNCHANGED <<chatvars, rtvars, docvars, config>>

\* One turn of `for file_path in file_paths`.
AddDocumentsFile_StopsAtFailure ==
    LET r == process_document(batch.i, batch.file_paths[batch.i]) IN
    /\ batch.pc = "loop"
    /\ batch.i <= Len(batch.file_paths)
    /\ batch' = IF r.raised
                THEN [batch EXCEPT !.pc = "done", !.result = r, !.outcome = "raised"]
                ELSE [batch EXCEPT
                        !.i = IF r.success THEN @ + 1 ELSE Len(batch.file_paths) + 1,
                        !.result = r,
                        !.results = Append(@, r),
                        !.all_chunks = IF r.success THEN @ \o r.chunks ELSE @]
    /\ UNCHANGED <<chatvars, rtvars, docvars, config>>
AddDocumentsFile ==
    LET r == process_document(batch.i, batch.file_paths[batch.i]) IN
    /\ batch.pc = "loop"
    /\ batch.i <= Len(batch.file_paths)
    /\ batch' = IF r.raised
                THEN [batch EXCEPT !.pc = "done", !.result = r, !.outcome = "raised"]
                ELSE [batch EXCEPT
                        !.i = @ + 1,
                        !.result = r,
                        !.results = Append(@, r),
                        !.all_chunks = IF r.success THEN @ \o r.chunks ELSE @]
    /\ UNCHANGED <<chatvars, rtvars, docvars, config>>

\* After the loop: the vector store is called when there is a chunk (it may
\* raise, and add_documents raises on); the number of chunks is returned.
AddDocumentsIndex ==
    /\ batch.pc = "loop"
    /\ batch.i > Len(batch.file_paths)
    /\ IF batch.all_chunks # <<>>
       THEN \/ /\ index' = index \cup {batch.all_chunks[j] : j \in DOMAIN batch.all_chunks}
               /\ batch' = [batch EXCEPT !.pc = "done", !.added = TRUE,
                                         !.outcome = "returned",
                                         !.ret = Len(batch.all_chunks)]
            \/ /\ batch' = [batch EXCEPT !.pc = "done", !.added = TRUE,
                                         !.outcome = "raised"]
               /\ UNCHANGED index
       ELSE /\ batch' = [batch EXCEPT !.pc = "done", !.outcome = "returned",
                                      !.ret = Len(batch.all_chunks)]
            /\ UNCHANGED index
    /\ UNCHANGED <<chatvars, rtvars, documents, docCalls, settings, retrieved, config>>

NextIngest ==
    \/ \E files \in Batches : AddDocumentsStart(files)
    \/ AddDocumentsFile
    \/ AddDocumentsIndex

InitIngest ==
    /\ InitChatVars
    /\ ~hubKey
    /\ InitRtVars
    /\ InitDocVars
    /\ InitIngVars
    /\ settings = DefaultSettings

SpecIngest == InitIngest /\ [][NextIngest]_vars

\* ---- vocabulary of the properties
Range(f) == {f[i] : i \in DOMAIN f}
IsPrefix(a, b) == Len(a) <= Len(b) /\ SubSeq(b, 1, Len(a)) = a
UserTurn(p) == Turn("user", calls[p].q, p, calls[p].conv)
AiTurn(p) == Turn("assistant", calls[p].answer, p, calls[p].conv)
\* What handler p itself has appended to its memory since get_memory returned it.
OwnTurns(p) ==
    LET c == calls[p]
        h == heap[c.handle]
    IN SelectSeq(SubSeq(h, Len(c.pre) + 1, Len(h)), LAMBDA t : t.by = p)
\* chain.invoke is running in the worker thread, or has ended and the
\* coroutine has not resumed yet.
InGeneration(p) == calls[p].pc \in {"thread", "prompted", "gen_ok", "gen_err"}
SameMemory(p1, p2) ==
    calls[p1].sys = calls[p2].sys /\ calls[p1].conv = calls[p2].conv
ChainBuilt(p) ==
    calls[p].pc \in {"chained", "user_added", "thread", "prompted", "gen_ok",
                     "gen_err", "ai_added", "returned", "raised"}
\* The event-loop steps of chat from its call to the dispatch of chain.invoke.
PipelineStep(p) ==
    \/ GetMemoryAcquire(p)
    \/ GetMemoryBody(p)
    \/ BuildChain(p)
    \/ AddUserMessage(p)
    \/ Dispatch(p)
\* Any step of chat.
ChatStep(p) ==
    \/ PipelineStep(p)
    \/ ThreadPrompt(p)
    \/ ThreadLLM(p)
    \/ AddAiMessage(p)
    \/ ChatReturn(p)
    \/ ChatRaise(p)

\* C1: the turns held in a conversation's memory (the sequence chat appends to
\* and reads as chat history) never number more than the window size K.
C1_WindowBounded == \A o \in ObjIds : Len(heap[o]) <= K

\* C2 as stated: the prompt of a chat call is the no-history template when the
\* conversation's memory was empty at the start of the call and the
\* with-history template when it was not.
C2_TemplateByHistory ==
    \A p \in Procs : ChainBuilt(p) =>
        calls[p].prompt = IF calls[p].pre = <<>> THEN "default" ELSE "with_history"

\* C2 amended: unless the prompt was pulled from the hub, it is the no-history
\* template when the memory was empty at the start of the call and the
\* with-history template otherwise; the chain supplies chat_history exactly
\* when the memory was not empty, and that history holds every turn the memory
\* held at the start of the call.
C2_TemplateByHistoryUnlessHub ==
    \A p \in Procs : ChainBuilt(p) =>
        LET c == calls[p] IN
        /\ c.prompt \in {"hub", IF c.pre = <<>> THEN "default" ELSE "with_history"}
        /\ c.chain = IF c.pre = <<>> THEN "plain" ELSE "history"
        /\ c.pc \in {"prompted", "gen_ok", "ai_added", "returned"} =>
              IF c.pre = <<>> THEN c.hist = <<>> ELSE IsPrefix(c.pre, c.hist)

\* A second chat whose with-history prompt carries the first turn, question
\* and answer, of the same conversation.
C2_Witness ==
    \E p \in Procs :
        /\ calls[p].pc = "prompted"
        /\ calls[p].prompt = "with_history"
        /\ Len(calls[p].pre) = 2
        /\ calls[p].pre[1].role = "user"
        /\ calls[p].pre[2].role = "assistant"
        /\ IsPrefix(calls[p].pre, calls[p].hist)

\* C3: in a chat call the memory is resolved first, the question is appended
\* as a user turn before generation is started, the answer is appended as an
\* assistant turn only after generation has returned, and then chat returns.
C3_StageOrder ==
    \A p \in Procs :
        LET c == calls[p] IN
        /\ c.pc \in {"chat", "locked"} => c.handle = NoObj /\ c.gens = 0
        /\ c.pc \in {"resolved", "chained"} =>
              c.handle # NoObj /\ OwnTurns(p) = <<>> /\ c.gens = 0
        /\ c.pc = "user_added" => OwnTurns(p) = <<UserTurn(p)>> /\ c.gens = 0
        /\ c.pc \in {"thread", "prompted", "gen_err", "raised"} =>
              OwnTurns(p) = <<UserTurn(p)>> /\ c.gens = 1 /\ c.answer = ""
        /\ c.pc = "gen_ok" =>
              OwnTurns(p) = <<UserTurn(p)>> /\ c.gens = 1 /\ c.answer \in Answers
        /\ c.pc \in {"ai_added", "returned"} =>
              OwnTurns(p) = <<UserTurn(p), AiTurn(p)>> /\ c.gens = 1

\* A chat that has returned with exactly its two turns appended, in order.
C3_Witness ==
    \E p \in Procs :
        /\ calls[p].pc = "returned"
        /\ heap[calls[p].handle] = calls[p].pre \o <<UserTurn(p), AiTurn(p)>>

\* C4: when retrieval or generation fails, the failure reaches the caller of
\* chat after a single attempt, and the memory is what it was before the call
\* plus the one user turn of this call, with no assistant turn of this call
\* (turns that other calls on the conversation appended meanwhile aside: when
\* there are none, the memory is exactly the earlier content plus the question).
C4_FailureLeavesUserTurn ==
    \A p \in Procs :
        LET c == calls[p]
            h == heap[c.handle]
        IN
        /\ c.pc = "raised" =>
              /\ c.gens = 1
              /\ IsPrefix(c.pre, h)
              /\ OwnTurns(p) = <<UserTurn(p)>>
              /\ (\A i \in (Len(c.pre) + 1)..Len(h) : h[i].by = p) =>
                    h = Append(c.pre, UserTurn(p))
        /\ c.pc = "done" /\ c.gens > 0 /\ c.answer = "" =>
              /\ c.gens = 1
              /\ c.kind = "http_chat" => c.resp = "500"
              /\ c.kind = "ws_message" =>
                    "error" \in Range(c.events) /\ "message" \notin Range(c.events)

\* A failed chat on a conversation that already had turns: the memory is the
\* earlier turns plus the question.
C4_Witness ==
    \E p \in Procs :
        /\ calls[p].pc = "raised"
        /\ calls[p].pre # <<>>
        /\ heap[calls[p].handle] = Append(calls[p].pre, UserTurn(p))

\* C5: chat reads and writes the turns of a memory only while it holds the
\* memory manager's lock.
C5_TurnAccessUnderLock ==
    \A p \in Procs :
        calls[p].pc \in {"resolved", "chained", "thread", "gen_ok"} =>
            lock[calls[p].sys] = p

\* C6: the pipeline is not serialized per conversation: while one chat call is
\* in generation, a second call on the same conversation is free to resolve
\* the memory, append its user turn and start its own generation.
C6_NotSerialized ==
    \A p1, p2 \in Procs :
        ( /\ p1 # p2
          /\ InGeneration(p1)
          /\ SameMemory(p1, p2)
          /\ calls[p2].pc \in {"chat", "locked", "resolved", "chained", "user_added"}
          /\ loop \in {NoProc, p2} )
        => ENABLED PipelineStep(p2)

\* Both user turns are in the memory, neither assistant turn is, and the
\* history of one call holds the unanswered user turn of the other.
C6_Witness ==
    \E p1, p2 \in Procs :
        /\ p1 # p2
        /\ calls[p1].handle = calls[p2].handle
        /\ calls[p1].pc = "prompted"
        /\ InGeneration(p2)
        /\ OwnTurns(p1) = <<UserTurn(p1)>>
        /\ OwnTurns(p2) = <<UserTurn(p2)>>
        /\ UserTurn(p2) \in Range(calls[p1].hist)

\* C7: while a chat call is suspended in retrieval or generation it holds
\* neither the memory manager's lock nor the event loop, and every step of a
\* chat call on another conversation can be taken.
C7_OtherConversationNotBlocked ==
    \A pa \in Procs :
        InGeneration(pa) =>
            /\ lock[calls[pa].sys] # pa
            /\ loop # pa
            /\ \A pb \in Procs :
                  ( /\ pb # pa
                    /\ calls[pb].conv # calls[pa].conv
                    /\ calls[pb].pc \in {"chat", "locked", "resolved", "chained",
                                         "user_added", "thread", "prompted",
                                         "gen_ok", "gen_err", "ai_added"}
                    /\ loop \in {NoProc, pb} )
                  => ENABLED ChatStep(pb)

\* The HTTP chat of handler 1 is still in generation; the chat of handler 2 on
\* another conversation, started after it, has run to its return.
C7_Witness ==
    /\ calls[1].kind = "http_chat"
    /\ calls[1].pc = "thread"
    /\ calls[2].pc = "returned"
    /\ calls[2].sys = calls[1].sys
    /\ calls[2].conv # calls[1].conv
    /\ heap[calls[2].handle] = calls[2].pre \o <<UserTurn(2), AiTurn(2)>>

\* C8: the memory is shared by the two entry points: the history a chat starts
\* from holds every turn recorded for that conversation through either one.
C8_SharedHistory ==
    \A p \in Procs :
        calls[p].pc = "resolved" =>
            \A s \in Systems :
                memories[s][calls[p].conv] # NoObj =>
                    Range(heap[memories[s][calls[p].conv]]) \subseteq Range(calls[p].pre)

\* C9: after a successful DELETE /conversations/{id} no memory entry exists
\* for the id, whichever entry point created it.
C9_DeleteClearsMemory ==
    \A p \in Procs :
        ( /\ calls[p].kind = "delete_conv"
          /\ calls[p].pc = "done"
          /\ calls[p].resp = "200" )
        => \A s \in Systems : memories[s][calls[p].conv] = NoObj

\* C10: a request naming a conversation id that is not in the relational store
\* is answered not-found and touches nothing of the core: chat is not called
\* and no memory entry is created or changed.
C10_UnknownIdUntouched ==
    [][ \A p \in Procs :
          ( /\ calls[p].pc = "idle"
            /\ calls'[p].kind \in {"http_chat", "ws_message", "delete_conv"}
            /\ calls'[p].conv \notin conversations
            /\ calls'[p].events # <<"error_empty">> )
          => ( /\ calls'[p].pc = "done"
               /\ calls'[p].resp = "404"
               /\ memories' = memories
               /\ heap' = heap ) ]_vars

\* ---- vocabulary of the realtime properties
Stage(ev) ==
    CASE ev = "typing_on" -> 1
      [] ev \in {"message", "error"} -> 2
      [] ev = "typing_off" -> 3
      [] OTHER -> 0
\* The events handler p has sent to socket t while serving its frame, in order.
SentTo(p, t) ==
    LET l == SelectSeq(socks[p].log, LAMBDA e : e.to = t)
    IN [i \in 1..Len(l) |-> l[i].ev]
\* Handler p is serving a message frame with non-empty content.
ServingMessage(p) == calls[p].kind = "ws_message" /\ calls[p].q # ""
\* Any step of the handler of socket p while it serves a frame.
RtStep(p) ==
    \/ ChatStep(p)
    \/ RtSend(p)
    \/ RtBroadcastEnd(p)
    \/ RtAfterChat(p)
    \/ RtChatError(p)
    \/ RtFinish(p)

\* C11: serving a realtime message with non-empty content, the handler
\* broadcasts typing-on, then (chat having returned) the message event carrying
\* chat's answer, then typing-off: the message event is broadcast only after
\* chat has returned and appended both turns, nothing is broadcast while chat
\* runs, a served request whose chat succeeded has broadcast exactly the three
\* events in that order, and every send made for the request, to whichever
\* subscriber, follows that order.
C11_TypingThenMessageThenTypingOff ==
    \A p \in Procs : ServingMessage(p) =>
        LET c == calls[p]
            log == socks[p].log
        IN
        /\ \/ IsPrefix(c.events, <<"typing_on", "message", "typing_off">>)
           \/ IsPrefix(c.events, <<"typing_on", "error", "typing_off">>)
        /\ c.events # <<>>
        /\ "message" \in Range(c.events) =>
              c.answer \in Answers /\ OwnTurns(p) = <<UserTurn(p), AiTurn(p)>>
        /\ c.pc \notin {"bcast", "done"} => c.events = <<"typing_on">>
        /\ c.pc = "done" /\ c.answer \in Answers =>
              c.events = <<"typing_on", "message", "typing_off">>
        /\ \A i, j \in DOMAIN log : i < j => Stage(log[i].ev) <= Stage(log[j].ev)
        /\ \A i \in DOMAIN log :
              /\ log[i].ev \in Range(c.events)
              /\ log[i].ev = "message" => log[i].val = c.answer

\* A served message whose three events reached both subscribers of the
\* conversation, each in the order typing-on, message, typing-off.
C11_Witness ==
    \E p \in Procs :
        /\ ServingMessage(p)
        /\ calls[p].pc = "done"
        /\ \A t \in Procs : SentTo(p, t) = <<"typing_on", "message", "typing_off">>
        /\ \A i \in DOMAIN socks[p].log : socks[p].log[i].ok

\* C12: a message frame whose content is absent, not a string, empty or
\* whitespace-only has been answered, once served, with the one error event
\* "Message content cannot be empty" to its sender, and chat was not called.
C12_EmptyContentError ==
    \A p \in Procs :
        ( /\ calls[p].kind = "ws_message"
          /\ calls[p].pc = "done"
          /\ calls[p].q = "" )
        => /\ socks[p].log =
                <<[ev |-> "error_empty", val |-> "", to |-> p, ok |-> TRUE]>>
           /\ calls[p].handle = NoObj
           /\ calls[p].gens = 0

\* C13: every send made for a typing frame from subscriber s of conversation c
\* carries the frame's status and goes to a connection registered for c that
\* is not s.
C13_TypingToOthersOnly ==
    [][ \A p \in Procs :
          ( /\ calls[p].kind = "ws_typing"
            /\ Len(socks'[p].log) > Len(socks[p].log) )
          => LET e == socks'[p].log[Len(socks'[p].log)] IN
             /\ e.ev = calls[p].events[1]
             /\ e.to \in Range(active_connections[calls[p].conv])
             /\ e.to # p ]_vars

\* C14: when a broadcast to conversation c ends, every connection that was
\* registered for c when it began and still is has been sent the message,
\* whatever sends failed on the way.
C14_BroadcastReachesAll ==
    [][ \A p \in Procs :
          ( /\ calls[p].pc = "bcast"
            /\ socks[p].idx > Len(active_connections[calls[p].conv])
            /\ calls'[p] # calls[p] )
          => \A t \in Range(socks[p].start) \cap Range(active_connections[calls[p].conv]) :
                \E i \in DOMAIN socks[p].log :
                    socks[p].log[i].ev = socks[p].msg /\ socks[p].log[i].to = t ]_vars

\* C15: when the sender of a realtime message has gone away while its frame is
\* being served, the handler is not aborted: its next step can be taken, the
\* connection stays registered until the frame is served, the message event is
\* broadcast only with both turns in memory, a failed send does not take the
\* handler to its error branch, and the served frame has had all three
\* broadcasts.
C15_DisconnectDoesNotAbort ==
    \A p \in Procs : ServingMessage(p) /\ socks[p].conn = "closed" =>
        LET c == calls[p] IN
        /\ p \in Range(active_connections[c.conv])
        /\ loop \in {NoProc, p} => ENABLED RtStep(p)
        /\ c.pc = "done" => Len(c.events) = 3
        /\ c.pc \in {"ai_added", "returned"} \/ "message" \in Range(c.events) =>
              /\ OwnTurns(p) = <<UserTurn(p), AiTurn(p)>>
              /\ "error" \notin Range(c.events)

\* The sender went away during generation: typing-on reached it, the message
\* did not; the assistant turn is in memory, the frame is served and the
\* connection is still registered.
C15_Witness ==
    \E p \in Procs :
        /\ ServingMessage(p)
        /\ socks[p].conn = "closed"
        /\ calls[p].pc = "done"
        /\ calls[p].events = <<"typing_on", "message", "typing_off">>
        /\ \E i, j \in DOMAIN socks[p].log :
              /\ socks[p].log[i] = [ev |-> "typing_on", val |-> "", to |-> p, ok |-> TRUE]
              /\ socks[p].log[j].ev = "message"
              /\ socks[p].log[j].to = p
              /\ ~socks[p].log[j].ok
        /\ OwnTurns(p) = <<UserTurn(p), AiTurn(p)>>
        /\ p \in Range(active_connections[calls[p].conv])

\* ---- vocabulary of the document properties
Retrieved == retrieved.kind # "none"

\* C16: an upload whose content hash is that of an existing document record has
\* saved no file and called no ingestion, and its response is the successful
\* one carrying the existing record.
C16_DuplicateReturnsExisting ==
    \A u \in DocProcs :
        ( /\ docCalls[u].kind = "upload"
          /\ docCalls[u].pc = "done"
          /\ docCalls[u].dup # 0 )
        => /\ ~docCalls[u].saved
           /\ ~docCalls[u].ingested
           /\ docCalls[u].resp = "200"
           /\ docCalls[u].body = docCalls[u].dup

\* C17: a step that deletes a document record leaves in the vector store
\* exactly the chunks whose source is not that document's filename.
C17_DeleteRemovesExactlyItsChunks ==
    [][ \A d \in documents :
          d \notin documents' =>
              index' = {ch \in index : ch.source # d.filename} ]_vars

\* C18: the retrieval step returns at most retrieval_k chunks, none of them
\* less similar to the question than similarity_threshold, and returns none
\* when no chunk of the index clears the threshold.
C18_RetrievalBounded ==
    Retrieved =>
        /\ Len(retrieved.docs) <= settings.retrieval_k
        /\ \A i \in DOMAIN retrieved.docs :
              Sim(retrieved.q, retrieved.docs[i].text) >= settings.similarity_threshold

\* C19: for either chain, the context is the sentinel exactly when retrieval
\* returned no chunk, otherwise the retrieved texts, most similar first, with
\* a blank line between neighbours; it is never the empty string.
C19_ContextSlot ==
    Retrieved =>
        LET docs == retrieved.docs
            ctx == retrieved.context
        IN
        /\ ctx # <<>>
        /\ (ctx = <<Sentinel>>) <=> (docs = <<>>)
        /\ docs # <<>> =>
              /\ Len(ctx) = 2 * Len(docs) - 1
              /\ \A i \in DOMAIN docs : ctx[2 * i - 1] = docs[i].text
              /\ \A i \in 1..(Len(docs) - 1) : ctx[2 * i] = BlankLine
        /\ \A i, j \in DOMAIN docs :
              i < j => Sim(retrieved.q, docs[i].text) >= Sim(retrieved.q, docs[j].text)

\* The with-history chain retrieves the three chunks of two documents: the
\* context is their texts by falling similarity, blank lines between.
C19_Witness ==
    /\ retrieved.kind = "history"
    /\ retrieved.q = "q1"
    /\ retrieved.context = <<"t1", BlankLine, "t3", BlankLine, "t2">>

\* C20: a message is committed to the relational store for a conversation only
\* by a handler whose chat call has returned: a request whose chat fails
\* leaves no message there.
C20_StoreWrittenAfterChat ==
    [][ \A c \in ConvIds :
          Len(dbMessages'[c]) > Len(dbMessages[c]) =>
              \E p \in Procs : calls[p].conv = c /\ calls[p].pc = "returned" ]_vars

\* C21: a failure to persist the turn is not swallowed: a realtime handler that
\* goes on to broadcast the answer has stored the turn's two messages.
C21_NoSwallowedFailure ==
    [][ \A p \in Procs :
          ( /\ calls[p].kind = "ws_message"
            /\ calls[p].pc = "returned"
            /\ calls'[p].pc = "ws_final"
            /\ calls'[p].events = Append(calls[p].events, "message") )
          => dbMessages'[calls[p].conv] =
                 dbMessages[calls[p].conv] \o <<"user", "assistant">> ]_vars

\* ---- vocabulary of the ingestion properties
\* The files of the batch that process_document has been called on.
Processed == DOMAIN batch.results
Succeeds(f) == f.fault = "none"

RECURSIVE ChunkTotal(_)
ChunkTotal(files) ==
    IF files = <<>> THEN 0
    ELSE (IF Succeeds(Head(files)) THEN Len(SplitChunks(Head(files).content)) ELSE 0)
         + ChunkTotal(Tail(files))

\* C22: process_document does not raise when the loader or the splitter
\* fails: its result then has success false, an error description, no chunks,
\* chunk_count 0 and total_tokens 0, and add_documents raises only out of the
\* vector store call.
C22_ProcessDocumentNeverRaises ==
    /\ ~batch.result.raised
    /\ batch.outcome = "raised" => batch.added
    /\ \A k \in Processed :
          LET r == batch.results[k] IN
          ~Succeeds(batch.file_paths[k]) =>
              /\ ~r.success
              /\ ~r.raised
              /\ r.error # ""
              /\ r.chunks = <<>>
              /\ r.chunk_count = 0
              /\ r.total_tokens = 0

\* A file the loader cannot load and a file the splitter fails on have both
\* been processed, and the batch went on to a third file.
C22_Witness ==
    /\ Len(batch.results) = 3
    /\ batch.file_paths[1].fault = "load"
    /\ batch.file_paths[2].fault = "split"
    /\ batch.results[3].success

\* C23: a batch that returns has gone through all its files; every chunk of
\* every file that processed successfully is in the vector index, the count
\* returned is the total number of those chunks, and when every file failed
\* the count is 0 and the vector store was not called.
C23_FailedFileDoesNotStopBatch ==
    (batch.pc = "done" /\ batch.outcome = "returned") =>
        LET files == batch.file_paths IN
        /\ Len(batch.results) = Len(files)
        /\ \A k \in DOMAIN files :
              Succeeds(files[k]) =>
                  \A i \in DOMAIN SplitChunks(files[k].content) :
                      Chunk(k, i, SplitChunks(files[k].content)[i]) \in index
        /\ batch.ret = ChunkTotal(files)
        /\ Cardinality(index) = batch.ret
        /\ (\A k \in DOMAIN files : ~Succeeds(files[k])) =>
              (batch.ret = 0 /\ ~batch.added)

\* A batch whose first file fails and whose other two succeed has returned 3.
C23_Witness ==
    /\ batch.pc = "done"
    /\ batch.outcome = "returned"
    /\ Len(batch.file_paths) = 3
    /\ ~Succeeds(batch.file_paths[1])
    /\ Succeeds(batch.file_paths[2])
    /\ Succeeds(batch.file_paths[3])
    /\ batch.ret = 3
    /\ batch.added

\* ---- vocabulary of the configuration properties
\* The values the two fields are validated with.
EffectiveSize == ValueOf(config.given.chunk_size, DefaultChunkSize)
EffectiveOverlap == ValueOf(config.given.chunk_overlap, DefaultChunkOverlap)

\* C25: no Settings object is built when chunk_overlap >= chunk_size, the
\* validation then fails; every object built has chunk_overlap < chunk_size.
C25_OverlapBelowSize ==
    /\ config.pc = "loaded" =>
          /\ config.data.chunk_size # Absent
          /\ config.data.chunk_overlap # Absent
          /\ config.data.chunk_overlap[1] < config.data.chunk_size[1]
          /\ config.data.chunk_size[1] = EffectiveSize
          /\ config.data.chunk_overlap[1] = EffectiveOverlap
    /\ (config.pc \in {"chunk_overlap", "loaded", "failed"}
          /\ EffectiveOverlap >= EffectiveSize) =>
          /\ config.errors # {}
          /\ config.pc # "loaded"

\* chunk_size 150 is given and chunk_overlap is left to its default, 200: the
\* default fails the validator and nothing is built.
C25_Witness ==
    /\ config.pc = "failed"
    /\ config.given.chunk_size = <<150>>
    /\ config.given.chunk_overlap = Absent
    /\ config.errors = {"chunk_overlap"}

\* C24: clear_memory(c) leaves no entry for c and changes no other entry of the
\* mapping, of either instance; with no entry for c it changes nothing; and
\* after a step that is clear_memory(c), clear_memory(c) changes nothing.
C24_ClearMemoryIdempotent ==
    [][ \A s \in Systems, c \in ConvIds :
          LET m == ClearMemory(s, c) IN
          /\ m[s][c] = NoObj
          /\ \A s2 \in Systems, c2 \in ConvIds :
                (s2 # s \/ c2 # c) => m[s2][c2] = memories[s2][c2]
          /\ memories[s][c] = NoObj => m = memories
          /\ memories' = m => ClearMemory(s, c)' = memories' ]_vars

\* A conversation has been deleted and its entry cleared (a chat in flight
\* still holds the memory object the entry named) while the other
\* conversation's entry is still there.
C24_Witness ==
    \E p, p2 \in Procs :
        /\ calls[p].kind = "delete_conv"
        /\ calls[p].pc = "done"
        /\ calls[p].resp = "200"
        /\ memories["http"][calls[p].conv] = NoObj
        /\ calls[p2].sys = "http"
        /\ calls[p2].conv = calls[p].conv
        /\ calls[p2].handle # NoObj
        /\ \E c2 \in ConvIds \ {calls[p].conv} : memories["http"][c2] # NoObj

\* ---- vocabulary of the concurrent-upload properties
\* Handler u is an upload that has put chunks in the vector index and has not
\* yet committed its Document row.
IndexedUncommitted(u) ==
    /\ docCalls[u].kind = "upload"
    /\ docCalls[u].pc = "ingested"
    /\ docCalls[u].chunks > 0

\* C27: no upload adds the chunks of a content hash to the vector index while
\* another upload of the same content has added them and not yet committed.
C27_OneIngestionPerHash ==
    [][ \A u \in DOMAIN docCalls :
          ( /\ docCalls[u].pc = "saved"
            /\ docCalls'[u].pc = "ingested"
            /\ docCalls'[u].chunks > 0 )
          => ~ \E u2 \in DOMAIN docCalls \ {u} :
                  /\ IndexedUncommitted(u2)
                  /\ docCalls[u2].content = docCalls[u].content ]_vars


\* C28: when no document request is in progress, every chunk of the vector
\* index has the filename of exactly one Document row as its source.
C28_NoOrphanChunks ==
    (\A u \in DOMAIN docCalls : docCalls[u].pc = "idle") =>
        \A ch \in index :
            Cardinality({d \in documents : d.filename = ch.source}) = 1


\* C29: the chat_history the with-history chain hands to the prompt holds no
\* turn of this call: what it holds beyond the memory as the call found it was
\* appended by other calls, so the question is in the prompt only once.
C29_HistoryExcludesQuestion ==
    \A p \in Procs :
        (calls[p].pc = "prompted" /\ calls[p].chain = "history") =>
            LET c == calls[p] IN
            SelectSeq(SubSeq(c.hist, Len(c.pre) + 1, Len(c.hist)),
                      LAMBDA t : t.by = p) = <<>>


\* C30: when a broadcast to conversation c ends, each connection registered
\* for c from its beginning to its end has been sent the message once, and
\* only once, whatever connections joined or left c on the way.
C30_ExactlyOncePerSubscriber ==
    [][ \A p \in Procs :
          ( /\ calls[p].pc = "bcast"
            /\ socks[p].idx > Len(active_connections[calls[p].conv])
            /\ calls'[p] # calls[p] )
          => \A t \in Range(socks[p].start) \cap Range(active_connections[calls[p].conv]) :
                t \notin socks[p].left =>
                    Cardinality({i \in DOMAIN socks[p].log :
                                    /\ socks[p].log[i].ev = socks[p].msg
                                    /\ socks[p].log[i].to = t}) = 1 ]_vars


\* ---- vocabulary of the registry properties
\* The handler of socket p is running: connected and not yet ended.
Live(p) == socks[p].conn # "none"
Occurrences(L, p) == Cardinality({i \in DOMAIN L : L[i] = p})

\* C31: every key of the registry has a subscriber list that is not empty (and
\* there is no list without its key); the socket of each live handler is once
\* in the list of its conversation and in no other list; the socket of a
\* handler that has ended, by a disconnect or by another exception, is in no
\* list.
C31_RegistryWellFormed ==
    /\ \A c \in ConvIds : (c \in connKeys) <=> (active_connections[c] # <<>>)
    /\ \A p \in Procs :
          /\ Live(p) =>
                /\ socks[p].conv \in connKeys
                /\ Occurrences(active_connections[socks[p].conv], p) = 1
                /\ \A c \in ConvIds \ {socks[p].conv} :
                      Occurrences(active_connections[c], p) = 0
          /\ ~Live(p) =>
                \A c \in ConvIds : Occurrences(active_connections[c], p) = 0

\* The only handler of conversation 2 has ended by an exception in the frame
\* it was serving: its socket is in no list and the key 2 is gone, while the
\* handler of conversation 1 is live and registered.
C31_Witness ==
    /\ ~Live(2)
    /\ calls[2].pc = "done"
    /\ calls[2].conv = 2
    /\ socks[2].frame = "other"
    /\ Live(1)
    /\ connKeys = {1}
    /\ active_connections[1] = <<1>>


\* ---- the realtime endpoint under its scheduling: the event loop runs every
\* ---- ready coroutine in turn, the worker thread runs chain.invoke to its
\* ---- return or its exception
\* ---- (clients of one conversation that connect, send message frames with a
\* ---- text and go away)
MessageFrames == {f \in FrameContents : f.tag = "str" /\ Strip(f.val) # ""}

NextRtFair ==
    \/ \E p \in Procs : RtStep(p)
    \/ \E p \in Procs : RtConnect(p, 1)
    \/ \E p \in Procs : RtClientClose(p)
    \/ \E p \in Procs : RtDisconnect(p)
    \/ \E p \in Procs, f \in MessageFrames : RtMessage(p, f)

RtFairness == \A p \in Procs : WF_vars(RtStep(p))
SpecRtFair == InitRt /\ [][NextRtFair]_vars /\ RtFairness

\* The handler of p has broadcast typing-on for a message and nothing since.
TypingOn(p) == ServingMessage(p) /\ calls[p].events = <<"typing_on">>
\* The handler of p has served its message: typing-off was broadcast last, after
\* the message event when chat returned an answer and after the error event
\* when chat failed.
TypingOffDone(p) ==
    /\ ServingMessage(p)
    /\ calls[p].pc = "done"
    /\ socks[p].idx = 0
    /\ IF calls[p].answer \in Answers
       THEN calls[p].events = <<"typing_on", "message", "typing_off">>
       ELSE calls[p].events = <<"typing_on", "error", "typing_off">>

\* C32: for a realtime message with non-empty content, once typing-on has been
\* broadcast, typing-off is eventually broadcast for that request, with the
\* message event between the two when chat succeeded and the error event, not
\* the message event, when chat failed.
C32_TypingEventuallyOff ==
    \A p \in Procs : TypingOn(p) ~> TypingOffDone(p)

\* A request whose chat failed has been served: typing-on, error, typing-off.
C32_Witness ==
    \E p \in Procs :
        /\ TypingOffDone(p)
        /\ calls[p].answer \notin Answers
        /\ \E i \in DOMAIN socks[p].log : socks[p].log[i].ev = "typing_off"


\* ---- memory isolation between conversations
\* What a system instance holds for a conversation id: no entry, or the
\* messages of its entry.
MemoryState(s, conv) ==
    IF memories[s][conv] = NoObj THEN Absent ELSE <<heap[memories[s][conv]]>>
\* Handler p is inside SimpleRAGSystem.chat (from its call to its return or raise).
InChat(p) ==
    calls[p].pc \in {"chat", "locked", "resolved", "chained", "user_added",
                     "thread", "prompted", "gen_ok", "gen_err", "ai_added"}
\* The chat_history value that reached p's prompt, once the prompt is filled.
PromptHistory(p) ==
    IF calls[p].pc \in {"prompted", "gen_ok", "gen_err", "ai_added", "returned", "raised"}
    THEN calls[p].hist ELSE <<>>

\* C33: a step of a chat call on conversation A, whether the call goes on to
\* return or to raise, leaves the memory of every other conversation B as it was
\* (in both system instances), and the history that reaches a call's prompt holds
\* only turns appended by chat calls given the same conversation id.
C33_ChatTouchesOnlyOwnMemory ==
    [][\A p \in Procs :
          /\ (InChat(p) /\ calls'[p] # calls[p]) =>
                \A s \in Systems, b \in ConvIds :
                    b # calls[p].conv => MemoryState(s, b)' = MemoryState(s, b)
          /\ \A i \in DOMAIN PromptHistory(p)' :
                PromptHistory(p)'[i].conv = calls'[p].conv]_vars
\* A chat on conversation 1 has ended (returned or raised) with earlier turns
\* of conversation 1 in its prompt, while conversation 2 holds a finished
\* exchange of its own in the same instance.
C33_Witness ==
    \E p \in Procs :
        /\ calls[p].pc \in {"returned", "raised"}
        /\ calls[p].conv = 1
        /\ calls[p].hist # <<>>
        /\ memories[calls[p].sys][2] # NoObj
        /\ Len(heap[memories[calls[p].sys][2]]) = 2
        /\ \A i \in 1..2 : heap[memories[calls[p].sys][2]][i].conv = 2

====
